---- MODULE Spec2Model ----
EXTENDS Integers, Sequences, FiniteSets, TLC

\* FileDropZone (src/src/components/file-drop-zone.tsx): selection
\* reconciliation, removal, drag flag, and React's commit/render cycle.
\* Strings are modelled as sequences of one-character strings.

Max(a, b) == IF a >= b THEN a ELSE b
Min(a, b) == IF a <= b THEN a ELSE b

\* String.prototype.includes(p)
Includes(s, p) ==
    \E i \in 0..(Len(s) - Len(p)) : SubSeq(s, i + 1, i + Len(p)) = p

\* String.prototype.endsWith(p)
EndsWith(s, p) ==
    Len(p) <= Len(s) /\ SubSeq(s, Len(s) - Len(p) + 1, Len(s)) = p

\* String.prototype.indexOf(p): 0-based index of the first occurrence, or -1
IndexOf(s, p) ==
    IF \E i \in 0..(Len(s) - Len(p)) : SubSeq(s, i + 1, i + Len(p)) = p
    THEN CHOOSE i \in 0..(Len(s) - Len(p)) :
            /\ SubSeq(s, i + 1, i + Len(p)) = p
            /\ \A j \in 0..(i - 1) : SubSeq(s, j + 1, j + Len(p)) # p
    ELSE -1

\* String.prototype.replace(pat, rep) with a string pattern: first occurrence only
JsReplace(s, pat, rep) ==
    LET k == IndexOf(s, pat)
    IN IF k = -1 THEN s
       ELSE SubSeq(s, 1, k) \o rep \o SubSeq(s, k + Len(pat) + 1, Len(s))

\* Mutant: every "*" removed (replaceAll)
StripStarAll(type) == SelectSeq(type, LAMBDA c : c # "*")

\* type.replace("*", "")
StripStar(type) == JsReplace(type, <<"*">>, <<>>)

\* (type) => file.type.includes(type.replace("*","")) || file.name.endsWith(type.replace("*",""))
MatchesType(file, type) ==
    Includes(file.type, StripStar(type)) \/ EndsWith(file.name, StripStar(type))

\* acceptedFileTypes.some(...), evaluated left to right
RECURSIVE SomeType(_, _)
SomeType(file, types) ==
    IF types = <<>> THEN FALSE
    ELSE MatchesType(file, Head(types)) \/ SomeType(file, Tail(types))

\* Mutant: the two branches of the ternary swapped
ValidFilesInverted(newFiles, acceptedFileTypes) ==
    IF Len(acceptedFileTypes) # 0
    THEN newFiles
    ELSE SelectSeq(newFiles, LAMBDA f : SomeType(f, acceptedFileTypes))

\* const validFiles = acceptedFileTypes.length ? newFiles.filter(...) : newFiles
ValidFiles(newFiles, acceptedFileTypes) ==
    IF Len(acceptedFileTypes) # 0
    THEN SelectSeq(newFiles, LAMBDA f : SomeType(f, acceptedFileTypes))
    ELSE newFiles

\* Mutant: a negative end treated as 0
JsSlice0Clamped(s, end) == SubSeq(s, 1, Min(Max(end, 0), Len(s)))

\* Array.prototype.slice(0, end)
JsSlice0(s, end) ==
    LET n == IF end < 0 THEN Max(Len(s) + end, 0) ELSE Min(end, Len(s))
    IN SubSeq(s, 1, n)

\* Mutant: removes the element after index
JsSplice1Next(s, index) ==
    LET start == IF index < 0 THEN Max(Len(s) + index, 0) ELSE Min(index, Len(s))
    IN IF start + 1 >= Len(s) THEN s
       ELSE SubSeq(s, 1, start + 1) \o SubSeq(s, start + 3, Len(s))

\* Array.prototype.splice(index, 1) applied to a copy; returns the copy
JsSplice1(s, index) ==
    LET start == IF index < 0 THEN Max(Len(s) + index, 0) ELSE Min(index, Len(s))
    IN IF start >= Len(s) THEN s
       ELSE SubSeq(s, 1, start) \o SubSeq(s, start + 2, Len(s))

\* Mutant: multiple-file mode without the slice
HandleFileChangeNoCap(files, selectedFiles, maxFiles, acceptedFileTypes) ==
    LET validFiles == ValidFiles(selectedFiles, acceptedFileTypes)
    IN IF maxFiles > 1
       THEN files \o validFiles
       ELSE JsSlice0(validFiles, maxFiles)

\* Mutant: single-file mode test written as maxFiles >= 1
HandleFileChangeAppendAtOne(files, selectedFiles, maxFiles, acceptedFileTypes) ==
    LET validFiles == ValidFiles(selectedFiles, acceptedFileTypes)
    IN IF maxFiles >= 1
       THEN JsSlice0(files \o validFiles, maxFiles)
       ELSE JsSlice0(validFiles, maxFiles)

\* Mutant: multiple-file mode keeps the newest maxFiles files
HandleFileChangeKeepNewest(files, selectedFiles, maxFiles, acceptedFileTypes) ==
    LET validFiles == ValidFiles(selectedFiles, acceptedFileTypes)
        all == files \o validFiles
    IN IF maxFiles > 1
       THEN SubSeq(all, Max(Len(all) - maxFiles, 0) + 1, Len(all))
       ELSE JsSlice0(validFiles, maxFiles)

\* Mutant: a batch with no valid file keeps the existing files
HandleFileChangeKeepOnEmpty(files, selectedFiles, maxFiles, acceptedFileTypes) ==
    LET validFiles == ValidFiles(selectedFiles, acceptedFileTypes)
    IN IF validFiles = <<>> THEN files
       ELSE IF maxFiles > 1
       THEN JsSlice0(files \o validFiles, maxFiles)
       ELSE JsSlice0(validFiles, maxFiles)

\* Mutant: files already selected are not added again
HandleFileChangeDedup(files, selectedFiles, maxFiles, acceptedFileTypes) ==
    LET validFiles == ValidFiles(selectedFiles, acceptedFileTypes)
        fresh == SelectSeq(validFiles, LAMBDA f : ~\E i \in 1..Len(files) : files[i] = f)
    IN IF maxFiles > 1
       THEN JsSlice0(files \o fresh, maxFiles)
       ELSE JsSlice0(validFiles, maxFiles)

\* updatedFiles computed by handleFileChange from the files it sees
HandleFileChange(files, selectedFiles, maxFiles, acceptedFileTypes) ==
    LET validFiles == ValidFiles(selectedFiles, acceptedFileTypes)
    IN IF maxFiles > 1
       THEN JsSlice0(files \o validFiles, maxFiles)
       ELSE JsSlice0(validFiles, maxFiles)

\* ---------------------------------------------------------------------
\* Small universe of file descriptors and props

FA == [name |-> <<"a", ".", "p">>, type |-> <<"i", "/", "p">>]
FB == [name |-> <<"b", ".", "j">>, type |-> <<>>]
FileUniverse == {FA, FB}

MaxBatch == 2
MaxM == 3

Batches == UNION {[1..n -> FileUniverse] : n \in 0..MaxBatch}

FilterChoices ==
    { <<>>,
      << <<".", "p">> >>,
      << <<"i", "/", "*">> >>,
      << <<"*", ".", "j">>, <<".", "p">> >> }

RecOps == {"drop", "change"}

VARIABLES files, snap, isDragging, pendingRender, maxFiles, acceptedFileTypes,
          lastOp, prevOp, before, lastBatch, reported, calls,
          fFile, fFilter, fAccepted, fPc, rCur, rIdx, rRes, rCalled, rPc,
          filterChanged

pureVars == <<fFile, fFilter, fAccepted, fPc, rCur, rIdx, rRes, rCalled, rPc>>

widgetVars == <<files, snap, isDragging, pendingRender, maxFiles, acceptedFileTypes,
          lastOp, prevOp, before, lastBatch, reported, calls, filterChanged>>

vars == <<widgetVars, pureVars>>

PureIdle ==
    /\ fFile = FA /\ fFilter = <<>> /\ fAccepted = FALSE /\ fPc = "idle"
    /\ rCur = <<>> /\ rIdx = 0 /\ rRes = <<>> /\ rCalled = FALSE /\ rPc = "idle"

WidgetInit ==
    /\ files = <<>>
    /\ snap = <<>>
    /\ isDragging = FALSE
    /\ pendingRender = FALSE
    /\ maxFiles = 1
    /\ acceptedFileTypes = <<>>
    /\ lastOp = "none"
    /\ prevOp = "none"
    /\ before = <<>>
    /\ lastBatch = <<>>
    /\ reported = <<>>
    /\ calls = 0
    /\ filterChanged = FALSE

Init ==
    /\ files = <<>>
    /\ snap = <<>>
    /\ isDragging = FALSE
    /\ pendingRender = FALSE
    /\ maxFiles \in -1..MaxM
    /\ acceptedFileTypes \in FilterChoices
    /\ lastOp = "none"
    /\ prevOp = "none"
    /\ before = <<>>
    /\ lastBatch = <<>>
    /\ reported = <<>>
    /\ calls = 0
    /\ filterChanged = FALSE
    /\ PureIdle

\* Mutant: a second event may run before the re-render
EventsNotFlushed == TRUE

\* React flushes the updates of a discrete event (and re-renders, refreshing
\* the handlers' closures) before the next discrete event is dispatched.
EventsFlushed == ~pendingRender

\* Mutant: a batch containing a rejected file aborts without a result
ReconcileAbortsOnRejected(batch, op) ==
    IF ValidFiles(batch, acceptedFileTypes) # batch
    THEN /\ calls' = 0
         /\ prevOp' = lastOp
         /\ lastOp' = op
         /\ before' = files
         /\ lastBatch' = batch
         /\ UNCHANGED <<files, reported, pendingRender>>
    ELSE LET updatedFiles == HandleFileChange(snap, batch, maxFiles, acceptedFileTypes)
         IN /\ files' = updatedFiles
            /\ reported' = updatedFiles
            /\ calls' = 1
            /\ pendingRender' = TRUE
            /\ before' = files
            /\ lastBatch' = batch
            /\ prevOp' = lastOp
            /\ lastOp' = op

\* Mutant: the callback is passed the files seen before the update
ReconcileReportsStale(batch, op) ==
    LET updatedFiles == HandleFileChange(snap, batch, maxFiles, acceptedFileTypes)
    IN /\ files' = updatedFiles
       /\ reported' = snap
       /\ calls' = 1
       /\ pendingRender' = TRUE
       /\ before' = files
       /\ lastBatch' = batch
       /\ prevOp' = lastOp
       /\ lastOp' = op

\* handleFileChange(selectedFiles) with a non-null FileList, as called by
\* handleDrop (op = "drop") or the input's onChange (op = "change").
Reconcile(batch, op) ==
    LET updatedFiles == HandleFileChange(snap, batch, maxFiles, acceptedFileTypes)
    IN /\ files' = updatedFiles
       /\ reported' = updatedFiles
       /\ calls' = 1
       /\ pendingRender' = TRUE
       /\ before' = files
       /\ lastBatch' = batch
       /\ prevOp' = lastOp
       /\ lastOp' = op

Change ==
    /\ EventsFlushed
    /\ \E batch \in Batches : Reconcile(batch, "change")
    /\ UNCHANGED <<snap, isDragging, maxFiles, acceptedFileTypes>>
    /\ UNCHANGED <<pureVars, filterChanged>>

\* Mutant: the drop leaves the drag flag set
DropKeepsDragging ==
    /\ EventsFlushed
    /\ isDragging
    /\ \E batch \in Batches : Reconcile(batch, "drop")
    /\ UNCHANGED <<snap, isDragging, maxFiles, acceptedFileTypes>>
    /\ UNCHANGED <<pureVars, filterChanged>>

\* handleDrop: a browser delivers drop only to a target whose last dragover
\* was cancelled by handleDragOver (which set isDragging) with no dragleave
\* since.
Drop ==
    /\ EventsFlushed
    /\ isDragging
    /\ isDragging' = FALSE
    /\ \E batch \in Batches : Reconcile(batch, "drop")
    /\ UNCHANGED <<snap, maxFiles, acceptedFileTypes>>
    /\ UNCHANGED <<pureVars, filterChanged>>

\* Mutant: a null FileList handled as an empty batch
NullChangeAsEmpty ==
    /\ EventsFlushed
    /\ Reconcile(<<>>, "null")
    /\ UNCHANGED <<snap, isDragging, maxFiles, acceptedFileTypes>>
    /\ UNCHANGED <<pureVars, filterChanged>>

\* handleFileChange(null): early return
NullChange ==
    /\ EventsFlushed
    /\ lastOp' = "null"
    /\ prevOp' = lastOp
    /\ calls' = 0
    /\ UNCHANGED <<files, snap, isDragging, pendingRender, maxFiles,
                   acceptedFileTypes, before, lastBatch, reported>>
    /\ UNCHANGED <<pureVars, filterChanged>>

DragOver ==
    /\ EventsFlushed
    /\ isDragging' = TRUE
    /\ pendingRender' = (isDragging # TRUE)
    /\ lastOp' = "dragover"
    /\ prevOp' = lastOp
    /\ calls' = 0
    /\ UNCHANGED <<files, snap, maxFiles, acceptedFileTypes, before, lastBatch, reported>>
    /\ UNCHANGED <<pureVars, filterChanged>>

DragLeave ==
    /\ EventsFlushed
    /\ isDragging' = FALSE
    /\ pendingRender' = (isDragging # FALSE)
    /\ lastOp' = "dragleave"
    /\ prevOp' = lastOp
    /\ calls' = 0
    /\ UNCHANGED <<files, snap, maxFiles, acceptedFileTypes, before, lastBatch, reported>>
    /\ UNCHANGED <<pureVars, filterChanged>>

\* Mutant: opening the dialog clears the selection
OpenFileDialogClears ==
    /\ EventsFlushed
    /\ files' = <<>>
    /\ pendingRender' = TRUE
    /\ lastOp' = "open"
    /\ prevOp' = lastOp
    /\ calls' = 0
    /\ UNCHANGED <<snap, isDragging, maxFiles, acceptedFileTypes, before, lastBatch, reported>>
    /\ UNCHANGED <<pureVars, filterChanged>>

OpenFileDialog ==
    /\ EventsFlushed
    /\ lastOp' = "open"
    /\ prevOp' = lastOp
    /\ calls' = 0
    /\ UNCHANGED <<files, snap, isDragging, pendingRender, maxFiles,
                   acceptedFileTypes, before, lastBatch, reported>>
    /\ UNCHANGED <<pureVars, filterChanged>>

\* removeFile(index), index taken from the rendered list
RemoveFile ==
    /\ EventsFlushed
    /\ \E index \in 0..(Len(snap) - 1) :
          LET newFiles == JsSplice1(snap, index)
          IN /\ files' = newFiles
             /\ reported' = newFiles
    /\ calls' = 1
    /\ pendingRender' = TRUE
    /\ before' = files
    /\ prevOp' = lastOp
    /\ lastOp' = "remove"
    /\ UNCHANGED <<snap, isDragging, maxFiles, acceptedFileTypes, lastBatch>>
    /\ UNCHANGED <<pureVars, filterChanged>>

\* React re-render: handlers are recreated over the committed state
Render ==
    /\ pendingRender
    /\ snap' = files
    /\ pendingRender' = FALSE
    /\ UNCHANGED <<files, isDragging, maxFiles, acceptedFileTypes, lastOp,
                   prevOp, before, lastBatch, reported, calls>>
    /\ UNCHANGED <<pureVars, filterChanged>>

Next ==
    \/ Change
    \/ Drop
    \/ NullChange
    \/ DragOver
    \/ DragLeave
    \/ OpenFileDialog
    \/ RemoveFile
    \/ Render

Spec == Init /\ [][Next]_vars

\* Props values a parent passes in the props-change scenario
PropMaxChoices == {1, 3}
PropFilterChoices == { <<>>, << <<".", "p">> >> }

PropInit ==
    /\ files = <<>>
    /\ snap = <<>>
    /\ isDragging = FALSE
    /\ pendingRender = FALSE
    /\ maxFiles \in PropMaxChoices
    /\ acceptedFileTypes \in PropFilterChoices
    /\ lastOp = "none"
    /\ prevOp = "none"
    /\ before = <<>>
    /\ lastBatch = <<>>
    /\ reported = <<>>
    /\ calls = 0
    /\ filterChanged = FALSE
    /\ PureIdle

\* Mutant: a props change re-truncates the selection
ChangePropsTruncating ==
    /\ EventsFlushed
    /\ \E m \in PropMaxChoices, t \in PropFilterChoices :
          /\ maxFiles' = m
          /\ acceptedFileTypes' = t
          /\ filterChanged' = (filterChanged \/ t # acceptedFileTypes)
          /\ files' = JsSlice0(files, Max(m, 0))
          /\ snap' = JsSlice0(files, Max(m, 0))
    /\ lastOp' = "props"
    /\ prevOp' = lastOp
    /\ calls' = 0
    /\ UNCHANGED <<isDragging, pendingRender, before, lastBatch, reported>>
    /\ UNCHANGED pureVars

\* The parent re-renders FileDropZone with new maxFiles / acceptedFileTypes
\* props; useState keeps files as they are.
ChangeProps ==
    /\ EventsFlushed
    /\ \E m \in PropMaxChoices, t \in PropFilterChoices :
          /\ maxFiles' = m
          /\ acceptedFileTypes' = t
          /\ filterChanged' = (filterChanged \/ t # acceptedFileTypes)
    /\ lastOp' = "props"
    /\ prevOp' = lastOp
    /\ calls' = 0
    /\ UNCHANGED <<files, snap, isDragging, pendingRender, before, lastBatch, reported>>
    /\ UNCHANGED pureVars

PropsNext == Next \/ ChangeProps

PropSpec == PropInit /\ [][PropsNext]_vars

\* ---------------------------------------------------------------------
\* The filter of handleFileChange applied to one file (a pure function)

FilterFiles ==
    { [name |-> n, type |-> t] :
        n \in { <<"a", ".", "p">>, <<"a", ".", "P">>, <<"b", ".", "j">> },
        t \in { <<>>, <<"i", "/", "p">>, <<"t", "/", "j">> } }

Patterns ==
    { <<".", "p">>, <<"i", "/", "*">>, <<"*", ".", "p">>, <<"*", "*">>, <<"j", "*">> }

MaxFilterLen == 2

FilterSeqs == UNION {[1..n -> Patterns] : n \in 0..MaxFilterLen}

FilterInit ==
    /\ WidgetInit
    /\ fFile \in FilterFiles
    /\ fFilter \in FilterSeqs
    /\ fAccepted = FALSE
    /\ fPc = "init"
    /\ rCur = <<>> /\ rIdx = 0 /\ rRes = <<>> /\ rCalled = FALSE /\ rPc = "idle"

\* validFiles for the one-file batch [fFile]
FilterCheck ==
    /\ fPc = "init"
    /\ fAccepted' = (ValidFiles(<<fFile>>, fFilter) = <<fFile>>)
    /\ fPc' = "done"
    /\ UNCHANGED <<widgetVars, fFile, fFilter, rCur, rIdx, rRes, rCalled, rPc>>

FilterSpec == FilterInit /\ [][FilterCheck]_vars

\* ---------------------------------------------------------------------
\* removeFile(index) on a copy of the files it sees; the index comes from
\* files.map over the same render, so it is within the list

MaxRemLen == 4

RemoveInit ==
    /\ WidgetInit
    /\ fFile = FA /\ fFilter = <<>> /\ fAccepted = FALSE /\ fPc = "idle"
    /\ rCur \in UNION {[1..n -> FileUniverse] : n \in 1..MaxRemLen}
    /\ rIdx \in 0..(Len(rCur) - 1)
    /\ rRes = <<>>
    /\ rCalled = FALSE
    /\ rPc = "init"

RemoveCall ==
    /\ rPc = "init"
    /\ rRes' = JsSplice1(rCur, rIdx)
    /\ rCalled' = TRUE
    /\ rPc' = "done"
    /\ UNCHANGED <<widgetVars, fFile, fFilter, fAccepted, fPc, rCur, rIdx>>

RemoveSpec == RemoveInit /\ [][RemoveCall]_vars

\* ---------------------------------------------------------------------
\* Claims on the widget

Selections == UNION {[1..n -> FileUniverse] : n \in 0..MaxM}
Accepted == ValidFiles(lastBatch, acceptedFileTypes)

\* C1: for a fixed maxFiles >= 1, the Selection never holds more than
\* maxFiles files after any sequence of reconciliations and removals.
C1_SelectionBounded ==
    maxFiles >= 1 => Len(files) <= maxFiles

C1_Witness ==
    maxFiles >= 2 /\ lastOp \in RecOps /\ Len(files) = maxFiles

\* C2: with maxFiles = 1 a reconciliation replaces the Selection by the
\* first accepted file of the batch (or empty), whatever the prior Selection.
C2_ReplaceAtOne ==
    (lastOp \in RecOps /\ maxFiles = 1) =>
        /\ files = (IF Accepted = <<>> THEN <<>> ELSE <<Accepted[1]>>)
        /\ \A s \in Selections :
              HandleFileChange(s, lastBatch, 1, acceptedFileTypes) = files

C2_Witness ==
    lastOp \in RecOps /\ maxFiles = 1 /\ before # <<>> /\ files # before

\* C3: with maxFiles = m > 1 a reconciliation keeps the first m elements of
\* (current ++ accepted); files already selected are never evicted.
C3_AppendKeepOldest ==
    (lastOp \in RecOps /\ maxFiles > 1) =>
        /\ files = SubSeq(before \o Accepted, 1,
                          Min(maxFiles, Len(before) + Len(Accepted)))
        /\ (Len(before) <= maxFiles => SubSeq(files, 1, Len(before)) = before)

C3_Witness ==
    /\ lastOp \in RecOps /\ maxFiles = 2
    /\ Len(before) = 2 /\ Len(Accepted) = 2

\* C5 (original): in every reachable state every member of the Selection
\* satisfies the accept filter (or the filter is empty).
C5_Original ==
    \A i \in 1..Len(files) :
        Len(acceptedFileTypes) = 0 \/ SomeType(files[i], acceptedFileTypes)

\* C5 (amended): while the acceptedFileTypes prop has not changed since
\* mount, every member of the Selection satisfies it (or it is empty).
C5_MembersAccepted ==
    ~filterChanged =>
        \A i \in 1..Len(files) :
            Len(acceptedFileTypes) = 0 \/ SomeType(files[i], acceptedFileTypes)

C5_Witness ==
    /\ ~filterChanged
    /\ Len(acceptedFileTypes) > 0 /\ lastOp \in RecOps /\ Len(files) > 0
    /\ \E i \in 1..Len(lastBatch) : ~SomeType(lastBatch[i], acceptedFileTypes)

\* C8 (original): a reconciliation with maxFiles < 1 is rejected: it produces
\* no Selection and reports nothing.
C8_Original ==
    (maxFiles < 1 /\ lastOp \in RecOps) => (calls = 0 /\ files = before)

\* C8 (amended): with maxFiles < 1 a reconciliation is not rejected: the
\* Selection becomes the accepted files without their last |maxFiles|
\* (empty for maxFiles = 0) and the callback is invoked with it.
C8_NonPositiveMaxFiles ==
    (maxFiles < 1 /\ lastOp \in RecOps) =>
        /\ maxFiles = 0 => files = <<>>
        /\ maxFiles < 0 =>
              files = SubSeq(Accepted, 1, Max(Len(Accepted) + maxFiles, 0))
        /\ reported = files
        /\ calls = 1

C8_Witness ==
    maxFiles = -1 /\ lastOp \in RecOps /\ Len(files) = 1

\* C9: after every reconciliation and removal the callback has been invoked
\* exactly once, with the full stored Selection.
C9_CallbackFullSelection ==
    lastOp \in RecOps \cup {"remove"} => (calls = 1 /\ reported = files)

C9_Witness ==
    lastOp = "remove" /\ prevOp \in RecOps /\ files # <<>>

\* C10: a reconciliation sees the Selection produced by the preceding
\* operation: the result is handleFileChange applied to the stored Selection.
C10_NoLostUpdate ==
    lastOp \in RecOps =>
        files = HandleFileChange(before, lastBatch, maxFiles, acceptedFileTypes)

C10_Witness ==
    /\ lastOp \in RecOps /\ prevOp \in RecOps
    /\ maxFiles > 1 /\ before # <<>> /\ files # before

\* ---------------------------------------------------------------------
\* Claims on the filter and on removeFile

Reverse(sq) == [k \in 1..Len(sq) |-> sq[Len(sq) - k + 1]]

\* A pattern with its trailing "*" characters stripped
RECURSIVE StripTrailingStars(_)
StripTrailingStars(p) ==
    IF p # <<>> /\ p[Len(p)] = "*" THEN StripTrailingStars(SubSeq(p, 1, Len(p) - 1))
    ELSE p

\* A pattern with its first "*" removed, wherever it occurs
RemoveFirstStar(p) ==
    IF \E k \in 1..Len(p) : p[k] = "*"
    THEN LET k == CHOOSE k \in 1..Len(p) : p[k] = "*" /\ \A j \in 1..(k - 1) : p[j] # "*"
         IN [j \in 1..(Len(p) - 1) |-> IF j < k THEN p[j] ELSE p[j + 1]]
    ELSE p

FileMatches(f, p) == Includes(f.type, p) \/ EndsWith(f.name, p)

\* C4 (original): a file is accepted iff the filter is empty or some pattern,
\* with only its trailing "*" stripped, is a substring of the mime type or a
\* suffix of the name; case-sensitive and independent of pattern order.
C4_Original ==
    fPc = "done" =>
        /\ fAccepted <=> (fFilter = <<>> \/
                          \E i \in 1..Len(fFilter) :
                              FileMatches(fFile, StripTrailingStars(fFilter[i])))
        /\ fAccepted <=> (ValidFiles(<<fFile>>, Reverse(fFilter)) = <<fFile>>)

\* C4 (amended): a file is accepted iff the filter is empty or some pattern,
\* with its first "*" removed wherever it occurs, is a substring of the mime
\* type or a suffix of the name; case-sensitive and independent of pattern order.
C4_FilterFirstStar ==
    fPc = "done" =>
        /\ fAccepted <=> (fFilter = <<>> \/
                          \E i \in 1..Len(fFilter) :
                              FileMatches(fFile, RemoveFirstStar(fFilter[i])))
        /\ fAccepted <=> (ValidFiles(<<fFile>>, Reverse(fFilter)) = <<fFile>>)

C4_Witness ==
    /\ fPc = "done" /\ fAccepted
    /\ \E i \in 1..Len(fFilter) : fFilter[i] = <<"*", ".", "p">>
    /\ ~\E i \in 1..Len(fFilter) : FileMatches(fFile, StripTrailingStars(fFilter[i]))

\* The sequence s without its element at 0-based position j
Without(sq, j) == [k \in 1..(Len(sq) - 1) |-> IF k <= j THEN sq[k] ELSE sq[k + 1]]

\* C6: removeFile(index) with 0 <= index < |current| removes exactly the
\* element at index; the others keep their relative order.
C6_RemoveAtInRange ==
    (rPc = "done" /\ 0 <= rIdx /\ rIdx < Len(rCur)) =>
        /\ Len(rRes) = Len(rCur) - 1
        /\ \A k \in 1..Len(rRes) : rRes[k] = rCur[IF k <= rIdx THEN k ELSE k + 1]

C6_Witness ==
    rPc = "done" /\ Len(rCur) = 3 /\ rIdx = 1 /\ rCur[1] # rCur[2] /\ rCur[2] # rCur[3]

\* ---------------------------------------------------------------------
\* Claims on the drag flag, frames and edge cases

\* C11: drag-over moves Idle or Hovering to Hovering, drag-leave moves to
\* Idle without touching the Selection, and a drop (delivered only while
\* Hovering) moves to Idle and reconciles the dropped batch.
C11_DragGate ==
    [][ /\ (DragOver => isDragging')
        /\ (DragLeave => (~isDragging' /\ files' = files /\ calls' = 0))
        /\ (Drop => /\ isDragging
                    /\ ~isDragging'
                    /\ lastOp' = "drop"
                    /\ calls' = 1
                    /\ files' = HandleFileChange(files, lastBatch', maxFiles, acceptedFileTypes)) ]_vars

C11_Witness ==
    lastOp = "drop" /\ prevOp = "dragover" /\ before # <<>> /\ files # before

\* C12: the Selection starts empty and only a reconciliation or a removal
\* changes it; drag events and opening the dialog change nothing and do not
\* invoke the callback.
C12_OnlyReconcileOrRemoveChange ==
    [][ /\ ((DragOver \/ DragLeave \/ OpenFileDialog) => (files' = files /\ calls' = 0))
        /\ (files' # files => (Change \/ Drop \/ RemoveFile)) ]_vars

C12_Witness ==
    lastOp \in {"dragover", "dragleave", "open"} /\ files # <<>>

\* C13: a reconciliation whose batch has rejected files completes normally:
\* it produces the Selection and invokes the callback with it.
C13_RejectedNotError ==
    (lastOp \in RecOps /\ Accepted # lastBatch) =>
        /\ calls = 1
        /\ reported = files
        /\ files = HandleFileChange(before, lastBatch, maxFiles, acceptedFileTypes)

C13_Witness ==
    lastOp \in RecOps /\ Accepted # lastBatch /\ files # <<>>

\* C14: with maxFiles = 1, a batch without accepted files clears the
\* Selection and reports [].
C14_SingleClearsOnNoAccepted ==
    (lastOp \in RecOps /\ maxFiles = 1 /\ Accepted = <<>>) =>
        /\ files = <<>>
        /\ reported = <<>>
        /\ calls = 1

C14_Witness ==
    lastOp \in RecOps /\ maxFiles = 1 /\ Accepted = <<>> /\ before # <<>>

\* C15: with maxFiles = m > 1 and m files selected, a reconciliation leaves
\* the Selection unchanged and still invokes the callback.
C15_FullSelectionFrozen ==
    [][ ((Change \/ Drop) /\ maxFiles > 1 /\ Len(files) = maxFiles) =>
            (files' = files /\ calls' = 1 /\ reported' = files) ]_vars

C15_Witness ==
    /\ lastOp \in RecOps /\ maxFiles > 1 /\ Len(before) = maxFiles
    /\ Len(Accepted) > 0

C17_NoDedup ==
    (lastOp \in RecOps /\ maxFiles > 1 /\ Len(before) < maxFiles /\ Accepted # <<>>) =>
        /\ SubSeq(files, 1, Len(before)) = before
        /\ Len(files) > Len(before)
        /\ files[Len(before) + 1] = Accepted[1]

C17_Witness ==
    /\ lastOp \in RecOps /\ maxFiles > 1
    /\ \E i, j \in 1..Len(files) : i # j /\ files[i] = files[j]

\* C18: handleFileChange(null) leaves the Selection unchanged and does not
\* invoke the callback.
C18_NullNoop ==
    [][ NullChange => (files' = files /\ calls' = 0 /\ reported' = reported) ]_vars

C18_Witness ==
    lastOp = "null" /\ files # <<>>

====
